---------------------------- MODULE Spec2Model ----------------------------
(***************************************************************************)
(* Model of app.py, the MPIE - IITJ dashboard: one Gradio callback,        *)
(* analyze, that runs the external analyze.py on the uploaded file,        *)
(* regex-parses its stdout, and renders a markdown summary, a bar chart    *)
(* and a PDF.                                                              *)
(*                                                                         *)
(* Text is a sequence of lexemes.  A lexeme is a run of characters that    *)
(* the regular expressions of the program either consume whole or not at   *)
(* all (a keyword, a name, one digit, one punctuation sign, one white      *)
(* space character).  The arrow U+2192 is written "->" and the label       *)
(* "R(superscript 2)=" is written "R2=".  TokLen gives the number of       *)
(* characters a lexeme stands for.                                         *)
(***************************************************************************)
EXTENDS Integers, Sequences, FiniteSets, TLC

VARIABLES
    pc,        \* where the callback is: "idle", "running" (blocked in subprocess.run), "exited"
    file_path, \* the argument of the running analyze call
    cmd,       \* argv of the subprocess launched by run_agent
    proc,      \* the CompletedProcess of the current call: returncode and stdout
    report,    \* what the external script set out to report (ghost, never read by the program)
    parsed,    \* the locals of analyze after the try block: exc, best, reward, rels, full
    result,    \* what the last finished call handed to Gradio: kind, md, fig, pdf
    fs,        \* the temporary directory: sequence of files, each a name and the text lines drawn
    figs,      \* pyplot's process-wide figure registry: sequence of [num, call]
    log,       \* the server-side log (stdout/stderr of the server process)
    nCalls,    \* number of analyze calls started
    nRuns,     \* number of subprocesses launched
    nSuccess   \* number of calls that returned a success triple

vars == <<pc, file_path, cmd, proc, report, parsed, result, fs, figs, log,
          nCalls, nRuns, nSuccess>>

---------------------------------------------------------------------------
(* Sequences and white space                                               *)

Min(S) == CHOOSE m \in S : \A n \in S : m <= n
Max(S) == CHOOSE m \in S : \A n \in S : m >= n

\* \s of the re module and str.strip(): the white space characters of the alphabet
WS == {" ", "\n"}

\* characters matched by \d
Digits == {"0", "1", "5"}

\* first position >= i that holds no white space (Len(s)+1 when there is none): greedy \s*
SkipWs(s, i) == Min({j \in i..(Len(s) + 1) : j = Len(s) + 1 \/ s[j] \notin WS})

\* first position >= i that holds a newline (Len(s)+1 when there is none): the end of a greedy .*
LineEnd(s, i) == Min({j \in i..(Len(s) + 1) : j = Len(s) + 1 \/ s[j] = "\n"})

\* first position >= i that holds no character of the set C: the end of a greedy [C]+
RunEnd(s, i, C) == Min({j \in i..(Len(s) + 1) : j = Len(s) + 1 \/ s[j] \notin C})

\* the literal lit stands at position i of s
Occurs(s, i, lit) ==
    /\ i >= 1
    /\ i + Len(lit) - 1 <= Len(s)
    /\ SubSeq(s, i, i + Len(lit) - 1) = lit

\* str.strip()
Strip(s) ==
    LET inked == {j \in 1..Len(s) : s[j] \notin WS}
    IN  IF inked = {} THEN <<>> ELSE SubSeq(s, Min(inked), Max(inked))

\* str.replace("'", '"')
ReplaceQuotes(s) == [j \in 1..Len(s) |-> IF s[j] = "'" THEN "\"" ELSE s[j]]

\* str.splitlines(): a trailing newline opens no further line
RECURSIVE SplitLines(_)
SplitLines(s) ==
    IF s = <<>> THEN <<>>
    ELSE LET e == LineEnd(s, 1)
         IN  <<SubSeq(s, 1, e - 1)>> \o SplitLines(SubSeq(s, e + 1, Len(s)))

\* int() of a run of digits
RECURSIVE IntOf(_)
IntOf(ds) ==
    IF ds = <<>> THEN 0
    ELSE 10 * IntOf(SubSeq(ds, 1, Len(ds) - 1))
         + (CASE ds[Len(ds)] = "0" -> 0 [] ds[Len(ds)] = "1" -> 1 [] ds[Len(ds)] = "5" -> 5)

\* the value of the fraction digits fs in thousandths (the inputs carry at most three)
FracMilli(ds) ==
    LET d(k) == IF k <= Len(ds) THEN IntOf(<<ds[k]>>) ELSE 0
    IN  100 * d(1) + 10 * d(2) + d(3)

\* float() of a run of digits and dots.  A float is held in thousandths.
\* float accepts "1", "1.", ".5", "0.5"; "." and "1.2.3" raise ValueError.
FloatOf(run) ==
    LET dots == {j \in 1..Len(run) : run[j] = "."}
    IN  IF Cardinality(dots) > 1 \/ Cardinality(dots) = Len(run)
        THEN [exc |-> "ValueError", v |-> 0]
        ELSE IF dots = {}
        THEN [exc |-> "none", v |-> 1000 * IntOf(run)]
        ELSE LET p == CHOOSE j \in dots : TRUE
             IN  [exc |-> "none",
                  v   |-> 1000 * IntOf(SubSeq(run, 1, p - 1))
                          + FracMilli(SubSeq(run, p + 1, Len(run)))]

---------------------------------------------------------------------------
(* The regular expressions of parse                                        *)

BestLit   == <<"Best", " ", "column:">>
RewardLit == <<"Reward", " ", "break-", "down:">>
TopLit    == <<"Top", " ", "relations:">>

None == [found |-> FALSE, group |-> <<>>]

\* the character at position i, "" past the end
At(s, i) == IF i >= 1 /\ i <= Len(s) THEN s[i] ELSE ""

\* re.search(r"Best column:\s*(.*)", stdout): the leftmost occurrence of the
\* literal always matches; \s* is greedy (it runs over newlines), .* stops
\* before the next newline.
BestColumnRe(s) ==
    LET occ == {i \in 1..Len(s) : Occurs(s, i, BestLit)}
    IN  IF occ = {} THEN None
        ELSE LET a == SkipWs(s, Min(occ) + Len(BestLit))
             IN  [found |-> TRUE, group |-> SubSeq(s, a, LineEnd(s, a) - 1)]

\* re.search(r"Reward break-down:\s*({.*})", stdout): after the literal and
\* the white space an opening brace, then greedily up to the last closing
\* brace of that line.
RewardMatchAt(s, i) ==
    LET a == SkipWs(s, i + Len(RewardLit))
    IN  /\ Occurs(s, i, RewardLit)
        /\ At(s, a) = "{"
        /\ \E c \in (a + 1)..(LineEnd(s, a) - 1) : s[c] = "}"

RewardRe(s) ==
    LET occ == {i \in 1..Len(s) : RewardMatchAt(s, i)}
    IN  IF occ = {} THEN None
        ELSE LET a == SkipWs(s, Min(occ) + Len(RewardLit))
                 c == Max({k \in (a + 1)..(LineEnd(s, a) - 1) : s[k] = "}"})
             IN  [found |-> TRUE, group |-> SubSeq(s, a, c)]

\* positions where a blank line ends a paragraph: the two characters \n\n
BlankAt(s) == {p \in 1..(Len(s) - 1) : s[p] = "\n" /\ s[p + 1] = "\n"}

\* re.search(r"Top relations:\s*([\s\S]*?)\n\n", stdout): \s* is greedy and
\* gives characters back only when no \n\n follows; the group is lazy and
\* ends before the first \n\n at or after its start.
TopRelationsStarts(s, i) ==
    {st \in (i + Len(TopLit))..SkipWs(s, i + Len(TopLit)) :
        \E p \in BlankAt(s) : p >= st}

TopRelationsRe(s) ==
    LET occ == {i \in 1..Len(s) :
                    Occurs(s, i, TopLit) /\ TopRelationsStarts(s, i) # {}}
    IN  IF occ = {} THEN None
        ELSE LET st == Max(TopRelationsStarts(s, Min(occ)))
                 p  == Min({q \in BlankAt(s) : q >= st})
             IN  [found |-> TRUE, group |-> SubSeq(s, st, p - 1)]

\* the tail \s*deg=(\d+)\s*R2=([\d.]+) matches at position b of the line
RelTailAt(line, b) ==
    LET p == SkipWs(line, b)
        q == RunEnd(line, p + 1, Digits)
        r == SkipWs(line, q)
        e == RunEnd(line, r + 1, Digits \cup {"."})
    IN  /\ At(line, p) = "deg="
        /\ q > p + 1
        /\ At(line, r) = "R2="
        /\ e > r + 1

\* re.match(r"(.*?)->(.*?)\s*deg=(\d+)\s*R2=([\d.]+)", line): both groups
\* are lazy, so the first arrow and then the first position where the tail
\* matches are taken.
RelationRe(line) ==
    LET arrows == {a \in 1..Len(line) :
                      /\ line[a] = "->"
                      /\ \E b \in (a + 1)..Len(line) : RelTailAt(line, b)}
    IN  IF arrows = {}
        THEN [found |-> FALSE, src |-> <<>>, dst |-> <<>>, deg |-> <<>>, r2 |-> <<>>]
        ELSE LET a == Min(arrows)
                 b == Min({k \in (a + 1)..Len(line) : RelTailAt(line, k)})
                 p == SkipWs(line, b)
                 q == RunEnd(line, p + 1, Digits)
                 r == SkipWs(line, q)
                 e == RunEnd(line, r + 1, Digits \cup {"."})
             IN  [found |-> TRUE,
                  src   |-> SubSeq(line, 1, a - 1),
                  dst   |-> SubSeq(line, a + 1, b - 1),
                  deg   |-> SubSeq(line, p + 1, q - 1),
                  r2    |-> SubSeq(line, r + 1, e - 1)]

---------------------------------------------------------------------------
(* json.loads on the reward text                                           *)

\* A decoded value has a type t: a number (n, in thousandths), a string (s),
\* null, or an object nested in the mapping (its items are not kept).
\* A dict is the sequence of its items in insertion order.
NoValue == [t |-> "none", n |-> 0, s |-> <<>>]
JsonErr == [exc |-> "JSONDecodeError", val |-> NoValue, items |-> <<>>, next |-> 0]

\* dict[k] = v: a key already present keeps its place and takes the new value
DictSet(d, k, v) ==
    IF \E j \in 1..Len(d) : d[j].k = k
    THEN [j \in 1..Len(d) |-> IF d[j].k = k THEN [k |-> k, v |-> v] ELSE d[j]]
    ELSE Append(d, [k |-> k, v |-> v])

\* scanstring: from the opening quote at i to the next quote
JsonString(t, i) ==
    LET close == {j \in (i + 1)..Len(t) : t[j] = "\""}
    IN  IF At(t, i) # "\"" \/ close = {} THEN JsonErr
        ELSE [exc   |-> "none",
              val   |-> [t |-> "str", n |-> 0, s |-> SubSeq(t, i + 1, Min(close) - 1)],
              items |-> <<>>,
              next  |-> Min(close) + 1]

\* NUMBER_RE  (-?(?:0|[1-9]\d*))(\.\d+)?  : the longest prefix that is a number
JsonNumber(t, i) ==
    LET e == IF t[i] = "0" THEN i + 1 ELSE RunEnd(t, i, Digits)
        f == IF At(t, e) = "." /\ At(t, e + 1) \in Digits
             THEN RunEnd(t, e + 1, Digits) ELSE e
    IN  [exc  |-> "none",
         val  |-> [t |-> "num",
                   n |-> 1000 * IntOf(SubSeq(t, i, e - 1))
                         + (IF f > e THEN FracMilli(SubSeq(t, e + 1, f - 1)) ELSE 0),
                   s |-> <<>>],
         items |-> <<>>,
         next |-> f]

RECURSIVE JsonValue(_, _), JsonObject(_, _), JsonMembers(_, _, _)

\* scan_once: the value that starts at i
JsonValue(t, i) ==
    CASE At(t, i) = "\""    -> JsonString(t, i)
      [] At(t, i) = "{"     -> [JsonObject(t, i) EXCEPT !.items = <<>>]
      [] At(t, i) = "null"  -> [exc |-> "none", val |-> [t |-> "null", n |-> 0, s |-> <<>>],
                                items |-> <<>>, next |-> i + 1]
      [] At(t, i) \in Digits -> JsonNumber(t, i)
      [] OTHER              -> JsonErr

\* JSONObject after the opening brace at i
JsonObject(t, i) ==
    LET a == SkipWs(t, i + 1)
    IN  IF At(t, a) = "}"
        THEN [exc |-> "none", val |-> [t |-> "obj", n |-> 0, s |-> <<>>], items |-> <<>>,
              next |-> a + 1]
        ELSE JsonMembers(t, a, <<>>)

\* one  "key" : value  pair at i, then a comma and the next pair, or the closing brace
JsonMembers(t, i, acc) ==
    LET key == JsonString(t, i)
    IN  IF key.exc # "none" THEN JsonErr
        ELSE LET c == SkipWs(t, key.next)
             IN  IF At(t, c) # ":" THEN JsonErr
                 ELSE LET val == JsonValue(t, SkipWs(t, c + 1))
                      IN  IF val.exc # "none" THEN JsonErr
                          ELSE LET d == SkipWs(t, val.next)
                                   items == DictSet(acc, key.val.s, val.val)
                               IN  CASE At(t, d) = "}" ->
                                          [exc |-> "none", val |-> [t |-> "obj", n |-> 0, s |-> <<>>],
                                           items |-> items, next |-> d + 1]
                                     [] At(t, d) = "," /\ At(t, SkipWs(t, d + 1)) = "\"" ->
                                          JsonMembers(t, SkipWs(t, d + 1), items)
                                     [] OTHER -> JsonErr

\* json.loads(text) for a text that starts with an opening brace: the object,
\* then nothing but white space ("Extra data" otherwise)
json_loads(t) ==
    LET o == JsonObject(t, 1)
    IN  IF o.exc # "none" THEN [exc |-> o.exc, val |-> <<>>]
        ELSE IF SkipWs(t, o.next) # Len(t) + 1
        THEN [exc |-> "JSONDecodeError", val |-> <<>>]
        ELSE [exc |-> "none", val |-> o.items]

---------------------------------------------------------------------------
(* parse                                                                   *)

\* the loop over the lines of the relation block: a line that does not
\* match is skipped, float() of the R2 text may raise
RECURSIVE RelRecords(_)
RelRecords(lines) ==
    IF lines = <<>> THEN [exc |-> "none", rels |-> <<>>]
    ELSE LET m    == RelationRe(lines[1])
             rest == RelRecords(Tail(lines))
         IN  IF ~m.found THEN rest
             ELSE IF FloatOf(m.r2).exc # "none"
             THEN [exc |-> "ValueError", rels |-> <<>>]
             ELSE IF rest.exc # "none" THEN rest
             ELSE [exc  |-> "none",
                   rels |-> <<[src |-> Strip(m.src), dst |-> Strip(m.dst),
                               deg |-> IntOf(m.deg), r2 |-> FloatOf(m.r2).v]>>
                            \o rest.rels]

Raised(e, stdout) ==
    [exc |-> e, best |-> <<>>, reward |-> <<>>, rels |-> <<>>, full |-> stdout]

\* parse(stdout): the three searches in program order; .group on a failed
\* search raises AttributeError
parse(stdout) ==
    LET mb == BestColumnRe(stdout)
        mr == RewardRe(stdout)
        mt == TopRelationsRe(stdout)
        rw == json_loads(ReplaceQuotes(mr.group))
        rl == RelRecords(SplitLines(mt.group))
    IN  IF ~mb.found THEN Raised("AttributeError", stdout)
        ELSE IF ~mr.found THEN Raised("AttributeError", stdout)
        ELSE IF rw.exc # "none" THEN Raised(rw.exc, stdout)
        ELSE IF ~mt.found THEN Raised("AttributeError", stdout)
        ELSE IF rl.exc # "none" THEN Raised(rl.exc, stdout)
        ELSE [exc |-> "none", best |-> Strip(mb.group),
              reward |-> rw.val, rels |-> rl.rels, full |-> stdout]

---------------------------------------------------------------------------
(* textwrap.wrap(text, 95)                                                 *)

\* the width handed to textwrap.wrap
Width == 95

\* number of characters of a lexeme
TokLen(t) ==
    CASE t = "Best" -> 4       [] t = "column:" -> 7  [] t = "Reward" -> 6
      [] t = "break-" -> 6     [] t = "down:" -> 5    [] t = "Top" -> 3
      [] t = "relations:" -> 10 [] t = "deg=" -> 4    [] t = "R2=" -> 3
      [] t = "hi" -> 2         [] t = "null" -> 4     [] t = "note" -> 4
      [] t = "w47" -> 47       [] t = "w95" -> 95     [] t = "w96" -> 96
      [] t = "w200" -> 200     [] t = "w5500" -> 5500 [] OTHER -> 1

RECURSIVE SumLen(_)
SumLen(toks) == IF toks = <<>> THEN 0 ELSE TokLen(toks[1]) + SumLen(Tail(toks))

\* lexemes that begin with two letters, with one letter followed by another
\* character, and those that are one letter
TwoLetters == {"Best", "column:", "Reward", "break-", "down:", "Top", "relations:",
               "deg=", "R2=", "hi", "null", "note", "w47", "w95", "w96", "w200",
               "w5500"}
OneLetter  == {"a", "b", "x", "y"}

\* wordsep_re splits a word after a hyphen that follows two letters and is
\* followed by two letters: after "break-" when letters follow
HyphenBreak(s, j) ==
    /\ s[j] = "break-"
    /\ \/ At(s, j + 1) \in TwoLetters
       \/ At(s, j + 1) \in OneLetter /\ At(s, j + 2) \in (OneLetter \cup TwoLetters)

\* TextWrapper._split after _munge_whitespace: the chunks of the text, runs of
\* white space and words, each with the position of its first lexeme in the
\* text, its lexemes, the offset of its first character still to be placed
\* and the number of characters left
RECURSIVE SplitChunks(_, _)
SplitChunks(s, i) ==
    IF i > Len(s) THEN <<>>
    ELSE IF s[i] \in WS
    THEN LET e == SkipWs(s, i)
         IN  <<[at |-> i, ws |-> TRUE, toks |-> SubSeq(s, i, e - 1), from |-> 0, len |-> e - i]>>
             \o SplitChunks(s, e)
    ELSE LET w  == Min({j \in i..(Len(s) + 1) : j = Len(s) + 1 \/ s[j] \in WS})
             hb == {j \in i..(w - 2) : HyphenBreak(s, j)}
             e  == IF hb = {} THEN w ELSE Min(hb) + 1
         IN  <<[at |-> i, ws |-> FALSE, toks |-> SubSeq(s, i, e - 1), from |-> 0,
                len |-> SumLen(SubSeq(s, i, e - 1))]>>
             \o SplitChunks(s, e)

\* offsets, within the chunk, of its hyphen characters
Hyphens(c) ==
    {SumLen(SubSeq(c.toks, 1, j)) - 1 : j \in {k \in 1..Len(c.toks) : c.toks[k] = "break-"}}

RECURSIVE SumPieces(_)
SumPieces(ps) == IF ps = <<>> THEN 0 ELSE ps[1].len + SumPieces(Tail(ps))

\* a piece that str.strip() leaves empty: white space, or the empty string
Blank(piece) == piece.ws \/ piece.len = 0

\* TextWrapper._handle_long_word: the number of characters of the chunk c put
\* on a line with space_left columns left; a hyphen before that point moves
\* the cut to just after it
LongWordCut(c, space_left) ==
    LET h == {k - c.from : k \in {m \in Hyphens(c) : m >= c.from /\ m - c.from < space_left}}
    IN  IF c.len > space_left /\ \E k \in h : k > 0
        THEN Max(h) + 1
        ELSE space_left

\* TextWrapper._wrap_chunks for max_lines = None, break_long_words and
\* drop_whitespace at their defaults: the lines, each a sequence of pieces.
\* While the first chunk is a word with no hyphen left that is longer than a
\* line, each turn of the loop starts an empty line and _handle_long_word
\* fills it with the next width characters of the word; those turns, all but
\* the one that places the end of the word, are taken in one step.
RECURSIVE wrap_chunks(_, _, _)
wrap_chunks(chunks, lines, width) ==
    IF chunks = <<>> THEN lines
    ELSE IF /\ ~chunks[1].ws
            /\ chunks[1].len > width
            /\ \A m \in Hyphens(chunks[1]) : m < chunks[1].from
    THEN LET c    == chunks[1]
             n    == (c.len - 1) \div width
             full == [j \in 1..n |-> <<[c EXCEPT !.from = @ + (j - 1) * width, !.len = width]>>]
         IN  wrap_chunks(<<[c EXCEPT !.from = @ + n * width, !.len = @ - n * width]>>
                             \o Tail(chunks),
                         lines \o full, width)
    ELSE LET cs   == IF chunks[1].ws /\ lines # <<>> THEN Tail(chunks) ELSE chunks
             k    == Max({n \in 0..Len(cs) : SumPieces(SubSeq(cs, 1, n)) <= width})
             cur  == SubSeq(cs, 1, k)
             rest == SubSeq(cs, k + 1, Len(cs))
             long == rest # <<>> /\ rest[1].len > width
             cut  == LongWordCut(rest[1], width - SumPieces(cur))
             cur2 == IF long
                     THEN Append(cur, [rest[1] EXCEPT !.len = cut])
                     ELSE cur
             rest2 == IF long
                      THEN <<[rest[1] EXCEPT !.from = @ + cut, !.len = @ - cut]>> \o Tail(rest)
                      ELSE rest
             cur3 == IF cur2 # <<>> /\ Blank(cur2[Len(cur2)])
                     THEN SubSeq(cur2, 1, Len(cur2) - 1)
                     ELSE cur2
         IN  wrap_chunks(rest2, IF cur3 # <<>> THEN Append(lines, cur3) ELSE lines, width)

\* a wrap that keeps the first line only, as textwrap.shorten does
wrap_shorten(text, width) ==
    LET ls == wrap_chunks(SplitChunks(text, 1), <<>>, width)
    IN  IF ls = <<>> THEN <<>> ELSE <<ls[1]>>

\* textwrap.wrap(text, width)
wrap(text, width) == wrap_chunks(SplitChunks(text, 1), <<>>, width)

---------------------------------------------------------------------------
(* The helpers and the body of analyze                                     *)

\* os.path.join(CACHE_DIR, "analyze.py")
ANALYZE == "/opt/render/project/hf_cache/analyze.py"

\* a run_agent that does not look at the exit code
run_agent_unchecked(p) == [exc |-> "none", detail |-> <<>>, stdout |-> p.stdout]

\* run_agent after subprocess.run has returned p: stdout, or RuntimeError
\* carrying the exit code and the merged output
run_agent(p) ==
    IF p.returncode # 0
    THEN [exc |-> "RuntimeError", detail |-> <<p.returncode, p.stdout>>, stdout |-> <<>>]
    ELSE [exc |-> "none", detail |-> <<>>, stdout |-> p.stdout]

\* str.upper() and str.lower() of one lexeme
Upper1(t) ==
    CASE t = "a" -> "A" [] t = "b" -> "B" [] t = "x" -> "X" [] t = "y" -> "Y"
      [] t = "hi" -> "Hi" [] t = "null" -> "Null" [] t = "note" -> "Note"
      [] t = "column:" -> "Column:" [] t = "break-" -> "Break-" [] t = "down:" -> "Down:"
      [] t = "relations:" -> "Relations:" [] t = "deg=" -> "Deg="
      [] OTHER -> t
Lower(t) ==
    CASE t = "Best" -> "best" [] t = "Reward" -> "reward" [] t = "Top" -> "top"
      [] t = "R2=" -> "r2=" [] OTHER -> t

\* str.capitalize(): first character upper case, the rest lower case
capitalize(k) ==
    [j \in 1..Len(k) |-> IF j = 1 THEN Upper1(Lower(k[1])) ELSE Lower(k[j])]

\* format(v, ".3f"): the integer part and three decimals of a number;
\* ValueError for a str, TypeError for None and for a dict
format_3f(v) ==
    CASE v.t = "num" -> [exc |-> "none", text |-> <<v.n \div 1000, v.n % 1000>>]
      [] v.t = "str" -> [exc |-> "ValueError", text |-> <<>>]
      [] OTHER       -> [exc |-> "TypeError", text |-> <<>>]

\* the generator of reward_md: one line per item of the dict, the first
\* value that does not format ends it with its exception
RECURSIVE reward_md(_)
reward_md(reward) ==
    IF reward = <<>> THEN [exc |-> "none", lines |-> <<>>]
    ELSE LET f    == format_3f(reward[1].v)
             rest == reward_md(Tail(reward))
         IN  IF f.exc # "none" THEN [exc |-> f.exc, lines |-> <<>>]
             ELSE IF rest.exc # "none" THEN rest
             ELSE [exc   |-> "none",
                   lines |-> <<[key |-> capitalize(reward[1].k), value |-> f.text]>> \o rest.lines]

\* the rows of the relation table
relations_md(rels) ==
    [i \in 1..Len(rels) |->
        [relation |-> <<rels[i].src, rels[i].dst>>, degree |-> rels[i].deg,
         r2 |-> <<rels[i].r2 \div 1000, rels[i].r2 % 1000>>]]

\* the values of a sequence in order of first appearance
RECURSIVE Unique(_)
Unique(q) ==
    IF q = <<>> THEN <<>>
    ELSE LET u == Unique(SubSeq(q, 1, Len(q) - 1))
         IN  IF \E j \in 1..Len(u) : u[j] = q[Len(q)] THEN u ELSE Append(u, q[Len(q)])

IndexOf(q, v) == Min({j \in 1..Len(q) : q[j] = v})

\* bar_chart: plt.subplots registers a new figure under the next free number
\* of pyplot's registry; ax.barh draws one bar per relation, of length r2, at
\* the place of its label on the category axis, and a category axis holds
\* each distinct label once
bar_chart(relations, registry) ==
    LET labels == [i \in 1..Len(relations) |->
                      relations[i].src \o <<"->">> \o relations[i].dst]
        cats   == Unique(labels)
    IN  [number     |-> Len(registry) + 1,
         categories |-> cats,
         bars       |-> [i \in 1..Len(relations) |->
                            [y |-> IndexOf(cats, labels[i]), width |-> relations[i].r2]],
         xlabel     |-> "R2",
         title      |-> "Top relations"]

\* tempfile.NamedTemporaryFile(delete=False, suffix=".pdf"): a name no file
\* of the directory bears
TempName(dir) == Cardinality(DOMAIN dir) + 1

\* the text object of pdf_from_text: beginText(40, 750), font size 11 (so a
\* leading of 13.2), one textLine per line of textwrap.wrap(text, 95).  y is
\* held in tenths of a point; textLine moves down by the leading whether or
\* not the line is still above the bottom of the page (y = 0).
TextObject(text) ==
    LET w == wrap(text, Width)
    IN  [k \in 1..Len(w) |-> [x |-> 40, y |-> 7500 - 132 * (k - 1), text |-> w[k]]]

\* a pdf_from_text that writes every report to one fixed path
pdf_fixed_name(text, dir) ==
    [name |-> 1,
     file |-> [suffix |-> ".pdf", head |-> "%PDF", font |-> <<"Helvetica", 11>>,
               pages |-> <<TextObject(text)>>]]

\* pdf_from_text: the temporary file and what canvas.save writes to it, one
\* page (showPage is called once) that holds the text object
pdf_from_text(text, dir) ==
    [name |-> TempName(dir),
     file |-> [suffix |-> ".pdf", head |-> "%PDF", font |-> <<"Helvetica", 11>>,
               pages |-> <<TextObject(text)>>]]

\* the message of the except branch
FailureNote == "### Analysis failed (see server logs)"

\* no figure (None), and the outputs before the first click
NoFig == [number |-> 0, categories |-> <<>>, bars |-> <<>>, xlabel |-> "", title |-> ""]
NoMd  == [best |-> <<>>, reward_md |-> <<>>, relations_md |-> <<>>]
NoResult == [kind |-> "none", note |-> "Awaiting file", md |-> NoMd, fig |-> NoFig,
             pdf |-> 0, exc |-> "none"]

\* the triple of the except branch
FailureTriple == [kind |-> "failure", note |-> FailureNote, md |-> NoMd, fig |-> NoFig,
                  pdf |-> 0, exc |-> "none"]

\* the try block of analyze: run_agent, then parse
try_block(p) ==
    IF run_agent(p).exc # "none"
    THEN Raised(run_agent(p).exc, p.stdout)
    ELSE parse(run_agent(p).stdout)

\* the markdown of the success path (the time stamp is left out)
markdown(pr) ==
    [best |-> pr.best, reward_md |-> reward_md(pr.reward).lines,
     relations_md |-> relations_md(pr.rels)]

---------------------------------------------------------------------------
(* The external script: what it reports and what it prints                 *)

MaxCalls == 2   \* analyze calls in one run of the server
MaxRels  == 2   \* relation lines of a report
MaxItems == 2   \* items of a reward mapping
MaxWords == 3   \* long words printed after the report

Paths == {"data.csv", "notes.txt"}

Names == {<<"x">>, <<"x", " ", "y">>}

Num(m)  == [t |-> "num", n |-> m, s |-> <<>>]
Str(ts) == [t |-> "str", n |-> 0, s |-> ts]

RewardPool == {[k |-> <<"a">>, v |-> Num(500)], [k |-> <<"a">>, v |-> Str(<<"hi">>)],
               [k |-> <<"b">>, v |-> Num(1000)]}

RelPool == {[src |-> <<"x">>, dst |-> <<"y">>, deg |-> 1, r2 |-> 500],
            [src |-> <<"x">>, dst |-> <<"y">>, deg |-> 5, r2 |-> 1000],
            [src |-> <<"y">>, dst |-> <<"x">>, deg |-> 1, r2 |-> 500]}

LongWords == {"w47", "w95", "w96", "w200"}
\* a word that alone fills more lines than a page has room for
PageWord  == "w5500"

SeqsUpTo(S, n) == UNION {[1..k -> S] : k \in 0..n}

\* reward mappings: the keys of a mapping differ
Rewards ==
    {r \in SeqsUpTo(RewardPool, MaxItems) :
        \A i, j \in 1..Len(r) : i # j => r[i].k # r[j].k}

\* the text of a number, of a value, of a mapping and of a relation line
NumText(m) ==
    CASE m = 500 -> <<"0", ".", "5">> [] m = 1000 -> <<"1", ".", "0">>
IntText(n) ==
    CASE n = 1 -> <<"1">> [] n = 5 -> <<"5">>
ValueText(v) ==
    IF v.t = "num" THEN NumText(v.n) ELSE <<"'">> \o v.s \o <<"'">>
RECURSIVE ItemsText(_)
ItemsText(items) ==
    IF items = <<>> THEN <<>>
    ELSE <<"'">> \o items[1].k \o <<"'", ":", " ">> \o ValueText(items[1].v)
         \o (IF Len(items) > 1 THEN <<",", " ">> ELSE <<>>) \o ItemsText(Tail(items))
RelText(r) ==
    r.src \o <<"->">> \o r.dst \o <<" ", "deg=">> \o IntText(r.deg)
          \o <<" ", "R2=">> \o NumText(r.r2)
RECURSIVE RelLines(_)
RelLines(rels) ==
    IF rels = <<>> THEN <<>> ELSE RelText(rels[1]) \o <<"\n">> \o RelLines(Tail(rels))

\* a paragraph that follows the report: a remark that quotes one relation
NoteTail == <<"note", "\n">> \o RelText([src |-> <<"y">>, dst |-> <<"y">>, deg |-> 1, r2 |-> 500])
            \o <<"\n", "\n">>

RECURSIVE WordsText(_)
WordsText(ws) ==
    IF ws = <<>> THEN <<>>
    ELSE <<ws[1]>> \o (IF Len(ws) > 1 THEN <<" ">> ELSE <<"\n">>) \o WordsText(Tail(ws))

\* what the script prints for a report.  defect names the part it leaves out
\* or spoils: the best-column line, the reward line, the relation block, the
\* blank line that ends the block, or the quotes of the reward keys
Stdout(d) ==
    (IF d.defect = "no_best" THEN <<>>
     ELSE BestLit \o <<" ">> \o d.best \o <<"\n">>)
    \o (IF d.defect = "no_reward" THEN <<>>
        ELSE RewardLit \o <<" ", "{">>
             \o (IF d.defect = "bad_json" THEN <<"a", ":", " ", "1">> ELSE ItemsText(d.reward))
             \o <<"}", "\n">>)
    \o (IF d.defect = "no_block" THEN <<>>
        ELSE TopLit \o <<"\n">> \o RelLines(d.rels)
             \o (IF d.defect = "no_blank" THEN <<>> ELSE <<"\n">>))
    \o d.tail

Defects == {"none", "no_best", "no_reward", "no_block", "no_blank", "bad_json"}

Report(b, rw, rl, tl, df) == [best |-> b, reward |-> rw, rels |-> rl, tail |-> tl, defect |-> df]

\* the reports of the parse and render checks
RichReports ==
    {Report(b, rw, rl, tl, df) :
        b \in Names, rw \in Rewards, rl \in SeqsUpTo(RelPool, MaxRels),
        tl \in {<<>>, NoteTail}, df \in Defects}

\* reports followed by long words
LongReports ==
    {Report(<<"x">>, <<[k |-> <<"a">>, v |-> Num(500)]>>, <<>>, WordsText(ws), "none") :
        ws \in (SeqsUpTo(LongWords, MaxWords) \ {<<>>})
               \cup {<<PageWord>> \o w : w \in SeqsUpTo(LongWords, MaxWords - 2)}
               \cup {w \o <<PageWord>> : w \in SeqsUpTo(LongWords, MaxWords - 2)}}

\* the reports of the runs with several calls
FewReports ==
    LET one == <<CHOOSE r \in RelPool : r.deg = 5>>
        ok  == <<[k |-> <<"a">>, v |-> Num(500)]>>
    IN  {Report(<<"x">>, ok, one, <<>>, "none"),
         Report(<<"x">>, ok, <<>>, NoteTail, "none"),
         Report(<<"x">>, <<[k |-> <<"a">>, v |-> Str(<<"hi">>)]>>, one, <<>>, "none"),
         Report(<<"x">>, ok, one, <<>>, "no_best"),
         Report(<<"x">>, ok, one, <<>>, "bad_json")}

NoReport == Report(<<>>, <<>>, <<>>, <<>>, "none")
NoProc   == [returncode |-> 0 - 1, stdout |-> <<>>]

---------------------------------------------------------------------------
(* The state machine                                                       *)

Init ==
    /\ pc = "idle"
    /\ file_path = ""
    /\ cmd = <<>>
    /\ proc = NoProc
    /\ report = NoReport
    /\ parsed = Raised("none", <<>>)
    /\ result = NoResult
    /\ fs = <<>>
    /\ figs = <<>>
    /\ log = <<>>
    /\ nCalls = 0
    /\ nRuns = 0
    /\ nSuccess = 0

\* run_btn.click(analyze, file_in, ...): the callback starts, run_agent
\* launches  python ANALYZE --data path  and blocks in subprocess.run, which
\* has no timeout
Click(path, limit) ==
    /\ pc = "idle"
    /\ nCalls < limit
    /\ pc' = "running"
    /\ file_path' = path
    /\ cmd' = <<"python", ANALYZE, "--data", path>>
    /\ proc' = NoProc
    /\ report' = NoReport
    /\ nCalls' = nCalls + 1
    /\ nRuns' = nRuns + 1
    /\ UNCHANGED <<parsed, result, fs, figs, log, nSuccess>>

\* the subprocess ends with exit code rc, having printed the report d;
\* stderr is merged into the captured stdout, nothing reaches the server's
\* own output
ProcExit(rc, d) ==
    /\ pc = "running"
    /\ pc' = "exited"
    /\ proc' = [returncode |-> rc, stdout |-> Stdout(d)]
    /\ report' = d
    /\ UNCHANGED <<file_path, cmd, parsed, result, fs, figs, log, nCalls, nRuns, nSuccess>>

\* the rest of analyze once subprocess.run has returned: the try block with
\* its except branch, then the formatting, the chart and the PDF, which run
\* outside the try block.  An exception raised there leaves analyze; the
\* framework reports it on the server's output.
analyze ==
    /\ pc = "exited"
    /\ pc' = "idle"
    /\ parsed' = try_block(proc)
    /\ IF parsed'.exc # "none"
       THEN /\ result' = FailureTriple
            /\ UNCHANGED <<fs, figs, log, nSuccess>>
       ELSE IF reward_md(parsed'.reward).exc # "none"
       THEN /\ result' = [NoResult EXCEPT !.kind = "raised", !.note = "Error",
                                          !.exc = reward_md(parsed'.reward).exc]
            /\ log' = Append(log, [call |-> nCalls, exc |-> reward_md(parsed'.reward).exc])
            /\ UNCHANGED <<fs, figs, nSuccess>>
       ELSE LET fig == bar_chart(parsed'.rels, figs)
                pdf == pdf_from_text(parsed'.full, fs)
            IN  /\ figs' = Append(figs, [number |-> fig.number, call |-> nCalls])
                /\ fs' = [n \in DOMAIN fs \cup {pdf.name} |->
                             IF n = pdf.name THEN pdf.file ELSE fs[n]]
                /\ result' = [kind |-> "success", note |-> "", md |-> markdown(parsed'),
                              fig |-> fig, pdf |-> pdf.name, exc |-> "none"]
                /\ nSuccess' = nSuccess + 1
                /\ UNCHANGED log
    /\ UNCHANGED <<file_path, cmd, proc, report, nCalls, nRuns>>

ExitCodes == {0, 1}

\* several calls, one after the other, on a few reports
Next ==
    \/ \E path \in Paths : Click(path, MaxCalls)
    \/ \E rc \in ExitCodes, d \in FewReports : ProcExit(rc, d)
    \/ analyze

Spec == Init /\ [][Next]_vars

\* one call on every report of the parse and render checks
NextOne ==
    \/ \E path \in Paths : Click(path, 1)
    \/ \E rc \in ExitCodes, d \in RichReports \cup LongReports : ProcExit(rc, d)
    \/ analyze

SpecOne == Init /\ [][NextOne]_vars

---------------------------------------------------------------------------
(* Properties                                                              *)

\* the last call has come to its end
Done == pc = "idle" /\ nCalls > 0

\* C1: for every stdout in the documented format (best-column line, reward
\* line, relation block ended by a blank line) parse returns the name, the
\* reward mapping as written, and one record per relation line of the block,
\* in order, with nothing from outside the block
C1_ParseExtractsReport ==
    (Done /\ proc.returncode = 0 /\ report.defect = "none")
        => /\ parsed.exc = "none"
           /\ parsed.best = report.best
           /\ parsed.reward = report.reward
           /\ parsed.rels = report.rels

\* the failure modes of one call: a non-zero exit, a stdout that lacks one of
\* the three patterns, a reward text that is no JSON after the quotes are
\* replaced
FailureMode ==
    \/ proc.returncode # 0
    \/ report.defect \in {"no_best", "no_reward", "no_block", "bad_json"}
    \/ report.defect = "no_blank" /\ report.tail = <<>>

\* C2: in each failure mode analyze does not raise and returns the one fixed
\* failure message with no chart and no PDF
C2_FailureModesCollapse ==
    (Done /\ FailureMode) => result = FailureTriple

\* a call on a reward text that is no JSON has returned the failure triple
C2_Witness ==
    /\ Done
    /\ proc.returncode = 0
    /\ report.defect = "bad_json"
    /\ parsed.exc = "JSONDecodeError"
    /\ result = FailureTriple

\* C3: whenever a call fails, the error detail is in the server-side log and
\* the UI receives only the short note
C3_FailureIsLogged ==
    (Done /\ result.kind = "failure")
        => /\ \E i \in 1..Len(log) : log[i].call = nCalls /\ log[i].exc = parsed.exc
           /\ result.note = FailureNote

\* C4: the chart has as many categories as there are relation records, and
\* the i-th bar is as long as the R2 of the i-th record
C4_ChartMatchesRelations ==
    (Done /\ result.kind = "success")
        => /\ Len(result.fig.categories) = Len(parsed.rels)
           /\ Len(result.fig.bars) = Len(parsed.rels)
           /\ \A i \in 1..Len(parsed.rels) : result.fig.bars[i].width = parsed.rels[i].r2

\* the pieces of all lines, in order
RECURSIVE Flatten(_)
Flatten(lines) ==
    IF lines = <<>> THEN <<>>
    ELSE IF Len(lines) = 1 THEN lines[1]
    ELSE LET h == Len(lines) \div 2
         IN  Flatten(SubSeq(lines, 1, h)) \o Flatten(SubSeq(lines, h + 1, Len(lines)))

Ink(t) == t \notin WS
InkPiece(piece) == ~piece.ws /\ piece.len > 0

\* number of non-white characters of the text before its position j
InkBefore(text, j) == SumLen(SelectSeq(SubSeq(text, 1, j - 1), Ink))

\* the non-white characters of the lines, read in order, are the non-white
\* characters of the text, each once, in order
NothingDropped(lines, text) ==
    LET ink      == SelectSeq(Flatten(lines), InkPiece)
        start(k) == InkBefore(text, ink[k].at) + ink[k].from
    IN  /\ \A k \in 1..Len(ink) :
              /\ ink[k].toks = SubSeq(text, ink[k].at, ink[k].at + Len(ink[k].toks) - 1)
              /\ start(k) = IF k = 1 THEN 0 ELSE start(k - 1) + ink[k - 1].len
        /\ InkBefore(text, Len(text) + 1)
              = IF ink = <<>> THEN 0 ELSE start(Len(ink)) + ink[Len(ink)].len

\* the text lines written to the file f, in order
TextLines(f) == [k \in 1..Len(f.pages[1]) |-> f.pages[1][k].text]

\* C5: after a successful call the returned PDF path names a file that
\* exists and is not empty, whose text lines are the wrap of the whole stdout
\* at width 95: no line is wider, every word is there in order, none dropped
\* however long stdout is
C5_PdfHoldsWrappedStdout ==
    (Done /\ result.kind = "success")
        => /\ result.pdf \in DOMAIN fs
           /\ fs[result.pdf].head = "%PDF"
           /\ Len(fs[result.pdf].pages) = 1
           /\ TextLines(fs[result.pdf]) = wrap(proc.stdout, Width)
           /\ \A l \in 1..Len(TextLines(fs[result.pdf])) :
                 SumPieces(TextLines(fs[result.pdf])[l]) <= Width
           /\ NothingDropped(TextLines(fs[result.pdf]), proc.stdout)

\* a successful call whose stdout was longer than a page and held a word
\* longer than a line: the word is cut and goes on over the next lines, and
\* lines are written past the bottom of the page
C5_Witness ==
    /\ Done
    /\ result.kind = "success"
    /\ result.pdf \in DOMAIN fs
    /\ \E l \in 1..Len(fs[result.pdf].pages[1]) : fs[result.pdf].pages[1][l].y < 0
    /\ \E l \in 1..Len(TextLines(fs[result.pdf])) :
          \E k \in 1..Len(TextLines(fs[result.pdf])[l]) :
              TextLines(fs[result.pdf])[l][k].from > 0

\* C7: calls share no state: what a call returns depends on its own input
\* only, and it finds pyplot's figure registry as a first call finds it
C7_CallsShareNoState ==
    (Done /\ result.kind = "success")
        => /\ result.fig.number = 1
           /\ figs = <<[number |-> 1, call |-> nCalls]>>

\* C8: each successful call adds one PDF file, a call that fails adds none,
\* no call removes or rewrites a file: there are as many files as successes
C8_PdfsOnlyAccumulate ==
    /\ [](Cardinality(DOMAIN fs) = nSuccess)
    /\ [][/\ \A n \in DOMAIN fs : n \in DOMAIN fs' /\ fs'[n] = fs[n]
          /\ IF pc = "exited" /\ result'.kind = "success"
             THEN Cardinality(DOMAIN fs') = Cardinality(DOMAIN fs) + 1
             ELSE fs' = fs]_vars

\* a successful call, then a failed one: the file of the first is still there
C8_Witness ==
    /\ Done
    /\ nCalls = 2
    /\ nSuccess = 1
    /\ result.kind = "failure"
    /\ Cardinality(DOMAIN fs) = 1

\* C9: a call runs the script once and waits for it; once the subprocess has
\* ended the call returns a result, a success triple or the failure triple
C9_CallReturnsAResult ==
    /\ nRuns = nCalls
    /\ pc = "running" => proc = NoProc
    /\ Done => result.kind \in {"success", "failure"}

\* C10: a call ends in one of two ways: the success triple when the exit code
\* is 0 and parse returns, the failure triple otherwise
C10_TwoOutcomes ==
    Done => IF proc.returncode = 0 /\ parse(proc.stdout).exc = "none"
            THEN result.kind = "success"
            ELSE result = FailureTriple

============================================================================
